---- MODULE Spec2Model ----
(***************************************************************************)
(* A model of gen_square_spiral (src/lib/issa.py, lines 113-186): the      *)
(* boundary walk around a rectangle followed by the radial scaling.        *)
(*                                                                         *)
(* Arithmetic is exact.  Every length (bounds, spacing, coordinates) is a  *)
(* rational whose denominator divides 2*num_points, so lengths are kept as *)
(* integers counted in units of 1/Unit.  Scale values are rationals <<n,d>>*)
(* and, in multiplicative mode, a rational exponent of the decay factor    *)
(* spiral_scale_step = 0.01^(1/num_points), which is kept symbolic.        *)
(***************************************************************************)
EXTENDS Integers, Sequences, FiniteSets

\* ---- bounds of the model ------------------------------------------------
MaxSide == 3
MaxPoints == 4
MaxSpirals == 2

\* ---- the inputs that are enumerated --------------------------------------
EquiTypes == {"revolution", "distant", "radial"}
SpiralTypes == {"linear", "multiplicative", "quadratic"}

VARIABLES
    height, width, num_points, num_spirals, equi_type, spiral_type,  \* arguments
    pc,            \* "start" | "walk" | "done": position in the function body
    curr_vert,     \* <<x, y>> in units of 1/Unit, <<>> before line 149
    curr_dir,      \* "u" | "r" | "d" | "l", "" before line 150
    vert_list,     \* the sequence of vertices
    i,             \* number of loop iterations completed (line 152)
    next_vert,     \* the last vertex computed by the loop body, <<>> if none
    in_bounds,     \* the last value of in_bounds (line 154)
    scale,         \* the scale sequence, <<>> before line 174
    x_vals, y_vals,\* the returned sequences, <<>> unless returned
    stdout,        \* what print wrote (line 182)
    exc            \* the exception that ended the call, type "none" if none

vars == <<height, width, num_points, num_spirals, equi_type, spiral_type, pc,
          curr_vert, curr_dir, vert_list, i, next_vert, in_bounds, scale,
          x_vals, y_vals, stdout, exc>>

args == <<height, width, num_points, num_spirals, equi_type, spiral_type>>

\* ---- lengths ---------------------------------------------------------------
\* One unit of length is 1/Unit: height/2 and spacing are then integers.
Unit == IF num_points > 0 THEN 2 * num_points ELSE 2

bound_t == (height * Unit) \div 2
bound_b == 0 - ((height * Unit) \div 2)
bound_l == 0 - ((width * Unit) \div 2)
bound_r == (width * Unit) \div 2

\* A variant of spacing that leaves out num_spirals.
spacing_NoSpirals == (2 * (height + width) * Unit) \div num_points

spacing == (2 * (height + width) * num_spirals * Unit) \div num_points

\* ---- the equi_type branch (lines 133-138) ---------------------------------
NoExc == [type |-> "none", msg |-> {}]

\* line 136: a bare NotImplementedError, no message.
\* lines 138, 180: the name raiseNotImplementedError is not defined, so
\* evaluating the call raises NameError, whose message names that name.
NameErrorExc == [type |-> "NameError", msg |-> {"raiseNotImplementedError"}]

\* A variant of EquiBranch that computes a spacing for 'distant' too.
EquiBranch_DistantFallsThrough(et) ==
    IF et \in {"revolution", "distant"} THEN "spacing" ELSE "NameError"

EquiBranch(et) ==
    IF et = "revolution" THEN "spacing"
    ELSE IF et = "distant" THEN "NotImplementedError"
    ELSE "NameError"

Call ==
    /\ pc = "start"
    /\ IF EquiBranch(equi_type) = "spacing"
       THEN IF num_points = 0
            THEN /\ exc' = [type |-> "ZeroDivisionError", msg |-> {}]
                 /\ pc' = "done"
                 /\ UNCHANGED <<curr_vert, curr_dir, vert_list>>
            ELSE /\ curr_vert' = <<bound_l, bound_b>>
                 /\ curr_dir' = "u"
                 /\ vert_list' = <<<<bound_l, bound_b>>>>
                 /\ pc' = "walk"
                 /\ UNCHANGED exc
       ELSE /\ exc' = IF EquiBranch(equi_type) = "NotImplementedError"
                      THEN [type |-> "NotImplementedError", msg |-> {}]
                      ELSE NameErrorExc
            /\ pc' = "done"
            /\ UNCHANGED <<curr_vert, curr_dir, vert_list>>
    /\ UNCHANGED <<args, i, next_vert, in_bounds, scale, x_vals, y_vals, stdout>>

\* ---- the boundary walk (lines 144-171) -------------------------------------
dir_map(d) ==
    CASE d = "u" -> <<0, spacing>>
      [] d = "d" -> <<0, 0 - spacing>>
      [] d = "l" -> <<0 - spacing, 0>>
      [] d = "r" -> <<spacing, 0>>

\* A variant of new_dir_map that turns the other way round.
new_dir_map_Anticlockwise(d) ==
    CASE d = "u" -> "l"
      [] d = "l" -> "d"
      [] d = "d" -> "r"
      [] d = "r" -> "u"

new_dir_map(d) ==
    CASE d = "u" -> "r"
      [] d = "r" -> "d"
      [] d = "d" -> "l"
      [] d = "l" -> "u"

\* line 154
InBounds(v) ==
    /\ v[1] >= bound_l
    /\ v[1] <= bound_r
    /\ v[2] >= bound_b
    /\ v[2] <= bound_t

\* lines 157-168: the branch is chosen by the direction; the first assignment
\* reads the coordinate that the second one overwrites.
Turn(d, v) ==
    CASE d = "u" -> <<v[1] + (v[2] - bound_t), bound_t>>
      [] d = "r" -> <<bound_r, v[2] - (v[1] - bound_r)>>
      [] d = "d" -> <<v[1] - (bound_b - v[2]), bound_b>>
      [] d = "l" -> <<bound_l, v[2] + (bound_l - v[1])>>

\* A variant of WalkRange that runs the loop once more: range(num_points).
WalkRange_OneMore == num_points

\* line 152: range(num_points-1)
WalkRange == num_points - 1

\* line 153
Proposed == <<curr_vert[1] + dir_map(curr_dir)[1], curr_vert[2] + dir_map(curr_dir)[2]>>

WalkStep ==
    /\ pc = "walk"
    /\ i < WalkRange
    /\ LET inb == InBounds(Proposed)
           nv == IF inb THEN Proposed ELSE Turn(curr_dir, Proposed)
       IN /\ in_bounds' = inb
          /\ next_vert' = nv
          /\ curr_dir' = IF inb THEN curr_dir ELSE new_dir_map(curr_dir)
          /\ vert_list' = Append(vert_list, nv)
          /\ curr_vert' = nv
    /\ i' = i + 1
    /\ UNCHANGED <<args, pc, scale, x_vals, y_vals, stdout, exc>>

\* ---- the radial scaling (lines 174-186) ------------------------------------
\* numpy.linspace(start, stop, num) with integer start and stop: num rationals
\* <<n, d>>, start + k*(stop-start)/(num-1) for k = 0..num-1; [start] if num = 1.
Linspace(start, stop, num) ==
    [k \in 1..num |->
        IF num = 1 THEN <<start, 1>>
        ELSE <<start * (num - 1) + (k - 1) * (stop - start), num - 1>>]

\* A variant of LinearScale that leaves the endpoint out:
\* 1, 1 - 1/num_points, ..., 1/num_points.
LinearScale_NoEndpoint ==
    [k \in 1..num_points |->
        [coef |-> <<num_points - (k - 1), num_points>>, exp |-> <<0, 1>>]]

\* A scale value is coef * spiral_scale_step^exp, coef and exp rationals.
\* line 175
LinearScale == [k \in 1..num_points |->
                  [coef |-> Linspace(1, 0, num_points)[k], exp |-> <<0, 1>>]]

\* lines 177-178
MultiplicativeScale == [k \in 1..num_points |->
                  [coef |-> <<1, 1>>, exp |-> Linspace(0, num_points, num_points)[k]]]

SpiralBranch(st) ==
    IF st = "linear" THEN "linear"
    ELSE IF st = "multiplicative" THEN "multiplicative"
    ELSE "NameError"

\* lines 183-184: coordinate c (1 for x, 2 for y) of every vertex times its
\* scale value, in units of 1/Unit.
Scaled(c, sc) ==
    [k \in 1..Len(vert_list) |->
        [coef |-> <<vert_list[k][c] * sc[k].coef[1], sc[k].coef[2]>>,
         exp |-> sc[k].exp]]

Scale ==
    /\ pc = "walk"
    /\ i >= WalkRange
    /\ pc' = "done"
    /\ IF SpiralBranch(spiral_type) = "NameError"
       THEN /\ exc' = NameErrorExc
            /\ UNCHANGED <<scale, x_vals, y_vals, stdout>>
       ELSE LET sc == IF SpiralBranch(spiral_type) = "linear"
                      THEN LinearScale ELSE MultiplicativeScale
            IN /\ scale' = sc
               /\ stdout' = Append(stdout, Len(sc))
               /\ IF Len(sc) = Len(vert_list)
                  THEN /\ x_vals' = Scaled(1, sc)
                       /\ y_vals' = Scaled(2, sc)
                       /\ UNCHANGED exc
                  ELSE \* numpy cannot broadcast two different lengths
                       /\ exc' = [type |-> "ValueError", msg |-> {}]
                       /\ UNCHANGED <<x_vals, y_vals>>
    /\ UNCHANGED <<args, curr_vert, curr_dir, vert_list, i, next_vert, in_bounds>>

Init ==
    /\ height \in 1..MaxSide
    /\ width \in 1..MaxSide
    /\ num_points \in 0..MaxPoints
    /\ num_spirals \in 1..MaxSpirals
    /\ equi_type \in EquiTypes
    /\ spiral_type \in SpiralTypes
    /\ pc = "start"
    /\ curr_vert = <<>>
    /\ curr_dir = ""
    /\ vert_list = <<>>
    /\ i = 0
    /\ next_vert = <<>>
    /\ in_bounds = TRUE
    /\ scale = <<>>
    /\ x_vals = <<>>
    /\ y_vals = <<>>
    /\ stdout = <<>>
    /\ exc = NoExc

Next == Call \/ WalkStep \/ Scale

Spec == Init /\ [][Next]_vars

\* ======================= the claims ========================================
ValidCall ==
    /\ equi_type = "revolution"
    /\ spiral_type \in {"linear", "multiplicative"}
    /\ num_points >= 2

Last(seq) == seq[Len(seq)]
Abs(n) == IF n < 0 THEN 0 - n ELSE n

\* C1: with equi_type = 'revolution' and num_points >= 2, every raw vertex of
\* the vertex list lies in the closed rectangle [left, right] x [bottom, top].
C1_AllVerticesInRectangle ==
    (equi_type = "revolution" /\ num_points >= 2) =>
        \A k \in 1..Len(vert_list) :
            /\ 0 - width * Unit <= 2 * vert_list[k][1]
            /\ 2 * vert_list[k][1] <= width * Unit
            /\ 0 - height * Unit <= 2 * vert_list[k][2]
            /\ 2 * vert_list[k][2] <= height * Unit

\* C2: a valid call never stops before the end, ends after exactly
\* num_points-1 walk steps without an exception, and returns x and y of length
\* num_points, element k being vertex k times scale value k.
C2_LengthIsNumPoints ==
    ValidCall =>
        /\ pc # "done" => ENABLED Next
        /\ i <= num_points - 1
        /\ pc = "done" =>
            /\ exc.type = "none"
            /\ i = num_points - 1
            /\ Len(vert_list) = num_points
            /\ Len(scale) = num_points
            /\ Len(x_vals) = num_points
            /\ Len(y_vals) = num_points
            /\ \A k \in 1..num_points :
                /\ x_vals[k].exp = scale[k].exp
                /\ y_vals[k].exp = scale[k].exp
                /\ x_vals[k].coef[1] * scale[k].coef[2]
                     = vert_list[k][1] * scale[k].coef[1] * x_vals[k].coef[2]
                /\ y_vals[k].coef[1] * scale[k].coef[2]
                     = vert_list[k][2] * scale[k].coef[1] * y_vals[k].coef[2]

C2_Witness ==
    /\ ValidCall
    /\ pc = "done"
    /\ num_points = 3
    /\ i = 2
    /\ Len(x_vals) = 3
    /\ Len(y_vals) = 3

\* C3 (as claimed): every two consecutive raw vertices, corner steps included,
\* are at Euclidean distance spacing = 2*(height+width)*num_spirals/num_points.
C3_EveryStepEuclidean ==
    \A k \in 1..(Len(vert_list) - 1) :
        LET dx == vert_list[k + 1][1] - vert_list[k][1]
            dy == vert_list[k + 1][2] - vert_list[k][2]
        IN (dx * dx + dy * dy) * num_points * num_points
             = (2 * (height + width) * num_spirals * Unit)
               * (2 * (height + width) * num_spirals * Unit)

\* C3 (amended): every walk step whose proposed vertex is in bounds (a step
\* that does not turn a corner) moves by Euclidean distance
\* spacing = 2*(height+width)*num_spirals/num_points.
C3_StraightStepEuclidean ==
    (i >= 1 /\ in_bounds) =>
        LET dx == vert_list[i + 1][1] - vert_list[i][1]
            dy == vert_list[i + 1][2] - vert_list[i][2]
        IN (dx * dx + dy * dy) * num_points * num_points
             = (2 * (height + width) * num_spirals * Unit)
               * (2 * (height + width) * num_spirals * Unit)

C3_Witness ==
    /\ pc = "walk"
    /\ i = 2
    /\ in_bounds
    /\ curr_dir = "r"

\* C4: an equi_type outside {revolution, distant}, or a spiral_type outside
\* {linear, multiplicative}, ends the call in a NotImplementedError whose
\* message names the invalid value and the allowed values.
C4_InvalidEnumNotImplemented ==
    /\ (pc = "done" /\ equi_type \notin {"revolution", "distant"}) =>
          /\ exc.type = "NotImplementedError"
          /\ {equi_type, "revolution", "distant"} \subseteq exc.msg
    /\ (pc = "done" /\ equi_type = "revolution" /\ num_points >= 1
          /\ spiral_type \notin {"linear", "multiplicative"}) =>
          /\ exc.type = "NotImplementedError"
          /\ {spiral_type, "linear", "multiplicative"} \subseteq exc.msg

\* C5: a call that fails on its equi_type or spiral_type fails before any
\* walk step is performed and returns no coordinates.
C5_FailsBeforeWalk ==
    (pc = "done" /\ exc.type \in {"NotImplementedError", "NameError"}) =>
        /\ i = 0
        /\ next_vert = <<>>
        /\ x_vals = <<>>
        /\ y_vals = <<>>

\* C6: with equi_type = 'distant' the call ends, in its first step, in a
\* NotImplementedError and returns no coordinates, whatever the other
\* arguments are.
C6_DistantNotImplemented ==
    equi_type = "distant" =>
        /\ pc = "start" => ENABLED Call
        /\ pc # "start" =>
            /\ pc = "done"
            /\ exc.type = "NotImplementedError"
            /\ i = 0
            /\ x_vals = <<>>
            /\ y_vals = <<>>

C6_Witness ==
    /\ equi_type = "distant"
    /\ pc = "done"
    /\ spiral_type = "quadratic"
    /\ num_points = 0
    /\ exc.type = "NotImplementedError"

\* C7: with spiral_type = 'linear' and num_points >= 2 the scale sequence is
\* evenly spaced from 1 at the first index to 0 at the last, the first output
\* coordinate is (left, bottom) and the last is (0, 0).
C7_LinearEndpoints ==
    (pc = "done" /\ exc.type = "none" /\ spiral_type = "linear" /\ num_points >= 2) =>
        /\ \A k \in 1..num_points : scale[k].exp[1] = 0
        /\ scale[1].coef[1] = scale[1].coef[2]
        /\ scale[num_points].coef[1] = 0
        /\ \A k \in 1..(num_points - 1) :
              (scale[k].coef[1] * scale[k + 1].coef[2]
                 - scale[k + 1].coef[1] * scale[k].coef[2]) * (num_points - 1)
                = scale[k].coef[2] * scale[k + 1].coef[2]
        /\ 2 * x_vals[1].coef[1] = (0 - width * Unit) * x_vals[1].coef[2]
        /\ 2 * y_vals[1].coef[1] = (0 - height * Unit) * y_vals[1].coef[2]
        /\ x_vals[1].exp[1] = 0
        /\ y_vals[1].exp[1] = 0
        /\ x_vals[num_points].coef[1] = 0
        /\ y_vals[num_points].coef[1] = 0

C7_Witness ==
    /\ pc = "done"
    /\ exc.type = "none"
    /\ spiral_type = "linear"
    /\ num_points = 4
    /\ Last(vert_list)[1] # 0
    /\ Last(vert_list)[2] # 0
    /\ x_vals[4].coef[1] = 0
    /\ y_vals[4].coef[1] = 0

\* C8: with spiral_type = 'multiplicative' the scale at sample i (0-indexed)
\* is r^i, r = 0.01^(1/num_points): the exponent at index i is exactly i.
C8_ExponentIsIndex ==
    (pc = "done" /\ exc.type = "none" /\ spiral_type = "multiplicative"
       /\ num_points >= 2) =>
        \A k \in 1..num_points :
            /\ scale[k].coef[1] = scale[k].coef[2]
            /\ scale[k].exp[1] = (k - 1) * scale[k].exp[2]

C10_CornerKeepsDistance ==
    (i >= 1 /\ ~in_bounds) =>
        (Abs(vert_list[i + 1][1] - vert_list[i][1])
           + Abs(vert_list[i + 1][2] - vert_list[i][2])) * num_points
          = 2 * (height + width) * num_spirals * Unit
====
